---- MODULE Spec2Model ----
(***************************************************************************)
(* The NES-to-OWOT casters of this repository: five scripts that share one *)
(* pipeline (frame source -> colour normaliser -> block sampler -> differ  *)
(* -> tile mapper -> batch emitter -> socket) and one command handler.     *)
(*                                                                         *)
(*   "interlaced"  src/nes_owot.js:1-149     half-block, interlaced, chat  *)
(*   "bigpad"      src/nes_owot.js:151-324   half-block, per frame, cmd    *)
(*   "webui"       src/unnamed/part_001      half-block, per frame, cmd    *)
(*   "octant"      src/unnamed/part_000      octants, interlaced, chat,    *)
(*                                           reconnecting, admin commands  *)
(*   "batch"       src/unnamed/part_002      half-block, 2 FPS, chat       *)
(***************************************************************************)
EXTENDS Integers, Sequences, FiniteSets, TLC

VARIABLES
    variant,            \* which of the five scripts is running
    proc,               \* "running" | "exited" (process.exit(1)) | "quit"
                        \* (process.exit(0)) | "crashed" (uncaught error) |
                        \* "ended" (nothing left to run)
    startPc,            \* the first start(): "fetching" | "done" | "failed"
    reloads,            \* start() calls of setrom commands awaiting their ROM
    reported,           \* TRUE once a failure went to console.error / stderr
    orphans,            \* live sockets the socket variable no longer refers to
    socket,             \* "none" | "connecting" | "open" | "closed"
    reconnects,         \* pending setTimeout(connect, 2000) timers
    logicInt,           \* scheduled setInterval(nes.frame) tasks
    renderInt,          \* scheduled setInterval(render) tasks
    currentFrameBuffer, \* NoFrame, or the frame the render tick will read
    lastFrame,          \* the frame the latest onFrame callback was handed
    delivered,          \* onFrame callbacks since the latest render tick
    tickDelivered,      \* that count as the latest render tick found it, 0 once
                        \* a newer frame has arrived
    lastFrameData,      \* cellIdx -> stored 32-bit word (Uint32Array)
    nextEditId,         \* the edit id counter
    firstEditId,        \* the value the counter started with
    interlaceField,     \* 0 or 1
    pressed,            \* buttons held down on controller 1
    buttonTimers,       \* token -> handle of its release timer, 0 if none
    timers,             \* pending release timers, in creation order
    now,                \* the clock, in ms
    sent,               \* messages handed to socket.send by the latest step
    lastOp,             \* the handler that ran in the latest step
    tickEdits,          \* the edit records built by the latest render tick
    tickRows,           \* the rows the latest render tick entered
    prevRows,           \* the rows the render tick before it entered
    seen,               \* cellIdx -> the block sampled at the cell's latest visit
    tickDelta,          \* cellIdx -> how that block compared with the visit before
    lastReceipt,        \* token -> time of its latest receipt, -1 if never
    lastToken,          \* the token the latest message or release timer carried
    solo,               \* the token held with no other command since, or "none"
    ROM_URL,            \* the URL start() fetches the ROM from
    pendingRoms,        \* the URLs of the setrom fetches in flight, oldest first
    loadedRom,          \* the URL of the ROM nes.loadROM took last, "none" before
    newest,             \* the latest setrom command: "none" | "pending" |
                        \* "loaded" | "failed"
    dropped,            \* TRUE when a socket has closed since the latest tick
                        \* that rendered
    probe               \* the input of a pure function under test, <<>> otherwise

vars == <<variant, proc, startPc, reloads, reported, orphans, socket, reconnects,
          logicInt, renderInt, currentFrameBuffer, lastFrame, delivered,
          tickDelivered, lastFrameData, nextEditId, firstEditId,
          interlaceField, pressed, buttonTimers, timers, now, sent, lastOp, tickEdits,
          tickRows, prevRows, seen, tickDelta, lastReceipt, lastToken, solo, ROM_URL,
          pendingRoms, loadedRom, newest, dropped, probe>>

Null == "null"

Variants == {"interlaced", "bigpad", "webui", "octant", "batch"}

(***************************************************************************)
(* Program constants.                                                      *)
(***************************************************************************)
TILE_C == 16
TILE_R == 8
HOLD_MS == 500
\* 0x1CD00
GLYPH_BASE == 118016
\* U+2580
HALF_BLOCK == 9600
\* " "
BLANK == 32

(***************************************************************************)
(* Bounds of the model.  The destination grid is CellRows x CellCols cells *)
(* (120 x 256 half-block cells, 60 x 128 octant cells in the program).     *)
(***************************************************************************)
CellRows == 3
CellCols == 1
\* edit ids a run may spend in render ticks
MaxRenderEdits == 5
\* clock steps of HOLD_MS / 2 each
MaxClockSteps == 4
\* pending release timers
MaxTimers == 2
\* longest edit list handed to the batch emitter
MaxEdits == 1203
\* setrom commands whose ROM fetch may be pending at once
MaxReloads == 2
\* onFrame callbacks counted between two render ticks
MaxDelivered == 2

NumCells == CellRows * CellCols
Cells == 0 .. (NumCells - 1)

IsOctant(v) == v = "octant"
IsInterlaced(v) == v \in {"interlaced", "octant"}
\* bigpad and webui render inside the onFrame callback; the others on a timer
RendersOnFrame(v) == v \in {"bigpad", "webui"}

\* the pixel block of one cell: S_w x S_h
BlockW(v) == IF IsOctant(v) THEN 2 ELSE 1
BlockH(v) == IF IsOctant(v) THEN 4 ELSE 2
WIDTH(v) == CellCols * BlockW(v)
HEIGHT(v) == CellRows * BlockH(v)

(***************************************************************************)
(* 32-bit words.  TLC's integers are Java ints, so a word is kept as its   *)
(* four bytes <<b3, b2, b1, b0>>, b3 the most significant.  A colour is a  *)
(* 24-bit integer.                                                         *)
(***************************************************************************)
RECURSIVE XorBits(_, _, _)
XorBits(a, b, n) ==
    IF n = 0 THEN 0
    ELSE (((a % 2) + (b % 2)) % 2) + 2 * XorBits(a \div 2, b \div 2, n - 1)

XorByte(a, b) == XorBits(a, b, 8)

XorWord(u, w) == [i \in 1..4 |-> XorByte(u[i], w[i])]

Byte(c, k) == (c \div (256 ^ k)) % 256

\* ToInt32(c) of a 24-bit colour or an 8-bit mask
WordOf(c) == <<0, Byte(c, 2), Byte(c, 1), Byte(c, 0)>>

\* c << 24, c << 16, c << 8 on int32
Shl24(c) == <<Byte(c, 0), 0, 0, 0>>
Shl16(c) == <<Byte(c, 1), Byte(c, 0), 0, 0>>
Shl8(c) == <<Byte(c, 2), Byte(c, 1), Byte(c, 0), 0>>

ZeroWord == <<0, 0, 0, 0>>

\* the sign of the int32 a word stands for
IsNegative(w) == w[1] >= 128

(***************************************************************************)
(* `lastFrameData[cellIdx] !== hash`: the left side is read from a         *)
(* Uint32Array (0 .. 2^32-1), the right side is the int32 the bit          *)
(* operators returned.  The two numbers are equal when the bits are equal  *)
(* and the int32 is not negative.                                          *)
(***************************************************************************)
StoredDiffers(stored, hash) == ~(stored = hash /\ ~IsNegative(hash))

(***************************************************************************)
(* Colour channel normaliser.                                              *)
(***************************************************************************)
fixColor(c) ==
    LET r == c % 256
        g == (c \div 256) % 256
        b == (c \div 65536) % 256
    IN  r * 65536 + g * 256 + b

\* webui masks the pixel instead of swapping its channels
Normalize(v, c) == IF v = "webui" THEN c % 16777216 ELSE fixColor(c)

(***************************************************************************)
(* Octant glyph table: the bit patterns that have a code point in the      *)
(* block starting at GLYPH_BASE, in code point order.                      *)
(***************************************************************************)
lcsOctantCharPoints ==
    <<4, 6, 7, 8, 9, 11, 12, 13, 14, 16, 17, 18, 19, 21, 22, 23, 24, 25, 26, 27, 28, 29, 30, 31,
      32, 33, 34, 35, 36, 37, 38, 39, 41, 42, 43, 44, 45, 46, 47, 48, 49, 50, 51, 52, 53, 54,
      55, 56, 57, 58, 59, 60, 61, 62, 65, 66, 67, 68, 69, 70, 71, 72, 73, 74, 75, 76, 77, 78,
      79, 81, 82, 83, 84, 86, 87, 88, 89, 91, 92, 93, 94, 96, 97, 98, 99, 100, 101, 102, 103,
      104, 105, 106, 107, 108, 109, 110, 111, 112, 113, 114, 115, 116, 117, 118, 119, 120, 121,
      122, 123, 124, 125, 126, 127, 129, 130, 131, 132, 133, 134, 135, 136, 137, 138, 139, 140,
      141, 142, 143, 144, 145, 146, 147, 148, 149, 150, 151, 152, 153, 154, 155, 156, 157, 158,
      159, 161, 162, 163, 164, 166, 167, 168, 169, 171, 172, 173, 174, 176, 177, 178, 179, 180,
      181, 182, 183, 184, 185, 186, 187, 188, 189, 190, 191, 193, 194, 195, 196, 197, 198, 199,
      200, 201, 202, 203, 204, 205, 206, 207, 208, 209, 210, 211, 212, 213, 214, 215, 216, 217,
      218, 219, 220, 221, 222, 223, 224, 225, 226, 227, 228, 229, 230, 231, 232, 233, 234, 235,
      236, 237, 238, 239, 241, 242, 243, 244, 246, 247, 248, 249, 251, 253, 254>>

ValidMasks == {lcsOctantCharPoints[i] : i \in 1..Len(lcsOctantCharPoints)}

\* octantCache.get(bitmask) || " ": the glyph as a string of code points
octantCache(bitmask) ==
    IF bitmask \in ValidMasks
    THEN LET idx == CHOOSE i \in 1..Len(lcsOctantCharPoints) :
                        lcsOctantCharPoints[i] = bitmask
         IN  <<GLYPH_BASE + (idx - 1)>>
    ELSE <<BLANK>>

(***************************************************************************)
(* Block sampler and glyph selector.  A frame is the pixel array, indexed  *)
(* from 0 in the program and from 1 here.                                  *)
(***************************************************************************)
Pixel(frame, idx) == frame[idx + 1]

\* the source pixels of cell (yChar, xChar), in raster order
RawBlock(v, frame, yChar, xChar) ==
    IF IsOctant(v)
    THEN [k \in 1..8 |->
            LET subY == (k - 1) \div 2
                subX == (k - 1) % 2
            IN  Pixel(frame, (yChar * 4 + subY) * WIDTH(v) + (xChar * 2 + subX))]
    ELSE LET idxT == (yChar * 2) * WIDTH(v) + xChar
             idxB == (yChar * 2 + 1) * WIDTH(v) + xChar
         IN  <<Pixel(frame, idxT), Pixel(frame, idxB)>>

\* the samples of a block, channel-normalised
Samples(v, raw) == [k \in DOMAIN raw |-> Normalize(v, raw[k])]

Count(colors, c) == Cardinality({k \in DOMAIN colors : colors[k] = c})

(***************************************************************************)
(* Object.keys(counts).sort((a, b) => counts[b] - counts[a]): the keys of  *)
(* counts are integer-like, so Object.keys lists them in ascending numeric *)
(* order, and the stable sort keeps that order among equal counts.         *)
(***************************************************************************)
First(colors, S) ==
    CHOOSE c \in S : \A d \in S \ {c} :
        \/ Count(colors, c) > Count(colors, d)
        \/ Count(colors, c) = Count(colors, d) /\ c < d

SortedColors(colors) ==
    LET S == {colors[k] : k \in DOMAIN colors}
        fg == First(colors, S)
    IN  IF S = {fg} THEN <<fg>> ELSE <<fg, First(colors, S \ {fg})>>

\* bit i of the mask is set when sample i is the foreground colour
Bitmask(colors, fg) ==
    LET bit(k) == IF colors[k] = fg THEN 2 ^ (k - 1) ELSE 0
    IN  bit(1) + bit(2) + bit(3) + bit(4) + bit(5) + bit(6) + bit(7) + bit(8)

OctantGlyph(colors) ==
    LET sorted == SortedColors(colors)
        fg == sorted[1]
        bg == IF Len(sorted) > 1 THEN sorted[2] ELSE fg
        bitmask == Bitmask(colors, fg)
    IN  [char |-> octantCache(bitmask), fg |-> fg, bg |-> bg,
         hash |-> XorWord(XorWord(Shl16(fg), Shl8(bg)), WordOf(bitmask))]

\* the glyph string of the half-block variants, as the source file holds it
HalfBlockChar(v) == IF v = "webui" THEN <<226, 8211, 8364>> ELSE <<HALF_BLOCK>>

HalfBlockGlyph(v, colors) ==
    LET colorT == colors[1]
        colorB == colors[2]
    IN  [char |-> HalfBlockChar(v), fg |-> colorT, bg |-> colorB,
         hash |-> XorWord(Shl24(colorT), WordOf(colorB))]

Glyph(v, colors) ==
    IF IsOctant(v) THEN OctantGlyph(colors) ELSE HalfBlockGlyph(v, colors)

(***************************************************************************)
(* Tile coordinate mapper, as each render loop writes it: the interlaced   *)
(* loops step a cell row yChar, the full-frame loops a pixel row y = 2 *   *)
(* yChar.                                                                  *)
(***************************************************************************)
\* a mapper that divides rows by the tile width and columns by the tile height
TileCoordsSwapped(v, yChar, xChar) ==
    [tileY |-> yChar \div TILE_C, tileX |-> xChar \div TILE_R,
     charY |-> yChar % TILE_C, charX |-> xChar % TILE_R]

TileCoords(v, yChar, xChar) ==
    IF IsInterlaced(v)
    THEN [tileY |-> yChar \div TILE_R, tileX |-> xChar \div TILE_C,
          charY |-> yChar % TILE_R, charX |-> xChar % TILE_C]
    ELSE LET y == 2 * yChar
         IN  [tileY |-> (y \div 2) \div TILE_R, tileX |-> xChar \div TILE_C,
              charY |-> (y \div 2) % TILE_R, charX |-> xChar % TILE_C]

\* one edit record: [tileY, tileX, charY, charX, now, char, editId, fg, bg]
MkEdit(v, yChar, xChar, ts, g, id) ==
    LET t == TileCoords(v, yChar, xChar)
    IN  [tileY |-> t.tileY, tileX |-> t.tileX, charY |-> t.charY, charX |-> t.charX,
         ts |-> ts, char |-> g.char, id |-> id, fg |-> g.fg, bg |-> g.bg]

(***************************************************************************)
(* Edit batch emitter: the loop                                            *)
(*   for (i = 0; i < edits.length; i += K) send(edits.slice(i, i + K))     *)
(***************************************************************************)
WriteMsg(edits) == [kind |-> "write", edits |-> edits]

\* a slice that includes the element at its end index
SliceInclusive(edits, i, j) ==
    SubSeq(edits, i + 1, IF j + 1 < Len(edits) THEN j + 1 ELSE Len(edits))

\* edits.slice(i, j)
Slice(edits, i, j) ==
    SubSeq(edits, i + 1, IF j < Len(edits) THEN j ELSE Len(edits))

RECURSIVE ChunkLoop(_, _, _)
ChunkLoop(edits, i, K) ==
    IF i < Len(edits)
    THEN <<WriteMsg(Slice(edits, i, i + K))>> \o ChunkLoop(edits, i + K, K)
    ELSE <<>>

\* a tail that sends the first chunk before it tests the length
SendChunksAlways(edits, K) ==
    <<WriteMsg(Slice(edits, 0, K))>> \o ChunkLoop(edits, K, K)

\* the render tick's tail: nothing is sent for an empty list
SendChunks(edits, K) ==
    IF Len(edits) > 0 THEN ChunkLoop(edits, 0, K) ELSE <<>>

\* the chunk size of each render function
ChunkSize(v) ==
    CASE v = "bigpad" -> 450
      [] v = "webui" -> 400
      [] OTHER -> 500

(***************************************************************************)
(* Edit identifier allocator: nextEditId++ yields id and leaves id + 1.    *)
(***************************************************************************)
\* a counter that is read and never advanced
NextIdStuck(id) == id

NextId(id) == id + 1

\* the values nextEditId may start with: Math.floor(Math.random() * 1000)
\* in webui (its two extremes here), 1 elsewhere
FirstIds(v) == IF v = "webui" THEN {0, 999} ELSE {1}

(***************************************************************************)
(* What each script draws when the socket opens.  Strings are sequences of *)
(* code points.                                                            *)
(***************************************************************************)
InstructionsText ==
    <<67, 72, 65, 84, 32, 67, 79, 77, 77, 65, 78, 68, 83, 58, 32, 85, 80, 44, 32,
      68, 79, 87, 78, 44, 32, 76, 69, 70, 84, 44, 32, 82, 73, 71, 72, 84, 44, 32,
      65, 44, 32, 66, 44, 32, 83, 84, 65, 82, 84, 44, 32, 83, 69, 76, 69, 67, 84>>

UI_PADS ==
    <<[label |-> <<85, 80>>, cmd |-> "up", tx |-> 3, ty |-> 16],
      [label |-> <<76, 69, 70, 84>>, cmd |-> "left", tx |-> 1, ty |-> 17],
      [label |-> <<82, 73, 71, 72, 84>>, cmd |-> "right", tx |-> 5, ty |-> 17],
      [label |-> <<68, 79, 87, 78>>, cmd |-> "down", tx |-> 3, ty |-> 18],
      [label |-> <<83, 69, 76>>, cmd |-> "select", tx |-> 8, ty |-> 17],
      [label |-> <<83, 84, 65, 82, 84>>, cmd |-> "start", tx |-> 10, ty |-> 17],
      [label |-> <<66>>, cmd |-> "b", tx |-> 13, ty |-> 17],
      [label |-> <<65>>, cmd |-> "a", tx |-> 15, ty |-> 17]>>

UI_BUTTONS ==
    <<[label |-> <<91, 32, 85, 80, 32, 93>>, cmd |-> "up", tx |-> 3, ty |-> 16, cx |-> 0, cy |-> 2],
      [label |-> <<91, 76, 69, 70, 84, 93>>, cmd |-> "left", tx |-> 1, ty |-> 16, cx |-> 8, cy |-> 4],
      [label |-> <<91, 82, 71, 72, 84, 93>>, cmd |-> "right", tx |-> 4, ty |-> 16, cx |-> 8, cy |-> 4],
      [label |-> <<91, 68, 79, 87, 78, 93>>, cmd |-> "down", tx |-> 3, ty |-> 16, cx |-> 0, cy |-> 6],
      [label |-> <<91, 32, 66, 32, 93>>, cmd |-> "b", tx |-> 7, ty |-> 16, cx |-> 0, cy |-> 4],
      [label |-> <<91, 32, 65, 32, 93>>, cmd |-> "a", tx |-> 9, ty |-> 16, cx |-> 0, cy |-> 4],
      [label |-> <<91, 32, 83, 69, 76, 32, 93>>, cmd |-> "select", tx |-> 3, ty |-> 17, cx |-> 4, cy |-> 2],
      [label |-> <<91, 32, 83, 84, 65, 32, 93>>, cmd |-> "start", tx |-> 5, ty |-> 17, cx |-> 4, cy |-> 2]>>

UILabels ==
    <<[l |-> <<84, 89, 80, 69, 32, 39, 85, 80, 39>>, x |-> 48, y |-> 128],
      [l |-> <<84, 89, 80, 69, 32, 39, 68, 79, 87, 78, 39>>, x |-> 48, y |-> 144],
      [l |-> <<84, 89, 80, 69, 32, 39, 76, 69, 70, 84, 39>>, x |-> 16, y |-> 136],
      [l |-> <<84, 89, 80, 69, 32, 39, 82, 73, 71, 72, 84, 39>>, x |-> 80, y |-> 136],
      [l |-> <<84, 89, 80, 69, 32, 39, 66, 39>>, x |-> 160, y |-> 136],
      [l |-> <<84, 89, 80, 69, 32, 39, 65, 39>>, x |-> 200, y |-> 136],
      [l |-> <<84, 89, 80, 69, 32, 39, 83, 84, 65, 82, 84, 39>>, x |-> 110, y |-> 145],
      [l |-> <<84, 89, 80, 69, 32, 39, 83, 69, 76, 69, 67, 84, 39>>, x |-> 110, y |-> 130]>>

RECURSIVE Flatten(_)
Flatten(ss) == IF ss = <<>> THEN <<>> ELSE Head(ss) \o Flatten(Tail(ss))

Place(ty, tx, cy, cx, ch, fg, bg, cmd) ==
    [tileY |-> ty, tileX |-> tx, charY |-> cy, charX |-> cx,
     char |-> <<ch>>, fg |-> fg, bg |-> bg, cmd |-> cmd]

\* the glyphs a script places on open, in the order it builds them
UIPlacements(v) ==
    CASE v = "interlaced" ->
            [k \in 1..Len(InstructionsText) |->
                Place(16, (k - 1) \div 16, 2, (k - 1) % 16, InstructionsText[k],
                      16777215, 0, "")]
      [] v = "bigpad" ->
            Flatten([p \in 1..Len(UI_PADS) |->
                LET pad == UI_PADS[p]
                    startX == (16 - Len(pad.label)) \div 2
                    startY == 3
                IN  [k \in 1..(TILE_R * TILE_C) |->
                        LET r == (k - 1) \div TILE_C
                            c == (k - 1) % TILE_C
                            ch == IF r = startY /\ c >= startX /\ c < startX + Len(pad.label)
                                  THEN pad.label[c - startX + 1] ELSE BLANK
                        IN  Place(pad.ty, pad.tx, r, c, ch, 16777215, 4473924, pad.cmd)]])
      [] v = "webui" ->
            Flatten([b \in 1..Len(UI_BUTTONS) |->
                LET btn == UI_BUTTONS[b]
                IN  [k \in 1..Len(btn.label) |->
                        LET x == btn.cx + (k - 1)
                        IN  Place(btn.ty, btn.tx + (x \div TILE_C), btn.cy, x % TILE_C,
                                  btn.label[k], 16777215, 3355443, btn.cmd)]])
      [] v = "batch" ->
            Flatten([b \in 1..Len(UILabels) |->
                LET btn == UILabels[b]
                IN  [k \in 1..Len(btn.l) |->
                        LET posX == btn.x + (k - 1)
                            posY == btn.y
                        IN  Place(posY \div TILE_R, posX \div TILE_C, posY % TILE_R,
                                  posX % TILE_C, btn.l[k], 16777215, 3355443, "")]])
      [] OTHER -> <<>>

\* the ids n successive nextEditId++ hand out, starting with the counter at id
RECURSIVE IdsFrom(_, _)
IdsFrom(id, n) ==
    IF n = 0 THEN <<>>
    ELSE IF n = 1 THEN <<id>>
    ELSE LET h == n \div 2
             left == IdsFrom(id, h)
         IN  left \o IdsFrom(NextId(left[h]), n - h)

\* the counter after n successive nextEditId++
IdAfter(id, n) == IF n = 0 THEN id ELSE NextId(IdsFrom(id, n)[n])

UIEdits(v, id, ts) ==
    LET ps == UIPlacements(v)
        ids == IdsFrom(id, Len(ps))
    IN  [k \in 1..Len(ps) |->
            [tileY |-> ps[k].tileY, tileX |-> ps[k].tileX, charY |-> ps[k].charY,
             charX |-> ps[k].charX, ts |-> ts, char |-> ps[k].char,
             id |-> ids[k], fg |-> ps[k].fg, bg |-> ps[k].bg]]

UILinks(v) ==
    LET ps == UIPlacements(v)
    IN  IF v \in {"bigpad", "webui"}
        THEN [k \in 1..Len(ps) |->
                [kind |-> "link", type |-> "url", tileY |-> ps[k].tileY,
                 tileX |-> ps[k].tileX, charY |-> ps[k].charY, charX |-> ps[k].charX,
                 url |-> <<"comu:", ps[k].cmd>>]]
        ELSE <<>>

\* broadcast(text): the announcement of the octant script
Broadcast == <<[kind |-> "cmd", data |-> "System Online. Controls: A, B, UP, DOWN, LEFT, RIGHT, RIGHT+A, LEFT+A"]>>

\* everything the open handler sends, in order
OpenMessages(v, id, ts) ==
    CASE v = "octant" -> Broadcast
      [] v = "bigpad" -> UILinks(v) \o ChunkLoop(UIEdits(v, id, ts), 0, 400)
      [] OTHER -> UILinks(v) \o <<WriteMsg(UIEdits(v, id, ts))>>

(***************************************************************************)
(* The frames the emulator delivers.  A frame shows one block pattern in   *)
(* cell 0 and one in every other cell; pixels are source values 0xBBGGRR.  *)
(* 8388736 = 0x800080, 65793 = 0x010101, 131586 = 0x020202, 256 = 0x000100.*)
(***************************************************************************)
HalfBlockBlocks ==
    << <<0, 0>>,            \* black over black: hash 0
       <<65793, 0>>,        \* one pixel away from the first
       <<256, 0>>,          \* top differs from black in its green byte only
       <<8388736, 0>>,      \* top with the high bit of its low byte set
       <<0, 65793>> >>

OctantBlocks ==
    << <<0, 0, 0, 0, 0, 0, 0, 0>>,                              \* monochrome
       <<0, 0, 65793, 0, 0, 0, 0, 0>>,                          \* one pixel away
       <<131586, 131586, 131586, 131586, 65793, 65793, 65793, 65793>>,  \* a tie
       <<8388736, 8388736, 8388736, 8388736, 8388736, 8388736, 8388736, 8388736>>,
       <<3, 2, 1, 4, 5, 6, 7, 8>> >>                            \* eight colours

Blocks(v) == IF IsOctant(v) THEN OctantBlocks ELSE HalfBlockBlocks

\* <<pattern of cell 0, pattern of the other cells>> of each frame
FramePatterns ==
    {<<1, 1>>, <<2, 1>>, <<3, 1>>, <<4, 1>>, <<5, 1>>, <<2, 5>>}

MkFrame(v, p, q) ==
    [i \in 1..(WIDTH(v) * HEIGHT(v)) |->
        LET py == (i - 1) \div WIDTH(v)
            px == (i - 1) % WIDTH(v)
            cell == (py \div BlockH(v)) * CellCols + (px \div BlockW(v))
            k == (py % BlockH(v)) * BlockW(v) + (px % BlockW(v)) + 1
        IN  IF cell = 0 THEN p[k] ELSE q[k]]

Frames(v) == {MkFrame(v, Blocks(v)[pq[1]], Blocks(v)[pq[2]]) : pq \in FramePatterns}

NoFrame == <<>>
NoRows == {-1}

(***************************************************************************)
(* Cell state cache / differ and the render loop.                          *)
(***************************************************************************)
\* how a block compares with the block the cell showed at its visit before
Selected(v, raw) ==
    LET g == Glyph(v, Samples(v, raw)) IN <<g.fg, g.bg>>

Classify(v, old, new) ==
    CASE old = <<>> -> "first"
      [] old = new -> "same"
      [] /\ old # <<>>
         /\ Cardinality({k \in DOMAIN new : old[k] # new[k]}) = 1
         /\ Selected(v, old) # Selected(v, new) -> "one"
      [] OTHER -> "other"

\* the rows a tick visits
VisitsRow(v, field, yChar) == IsInterlaced(v) => (yChar % 2) = field

RowsOfTick(v, field) == {y \in 0..(CellRows - 1) : VisitsRow(v, field, y)}

\* one cell of the loop body: acc is what the loop has built so far
RenderCell(v, frame, ts, cellIdx, acc) ==
    LET yChar == cellIdx \div CellCols
        xChar == cellIdx % CellCols
        raw == RawBlock(v, frame, yChar, xChar)
        g == Glyph(v, Samples(v, raw))
        visited == [acc EXCEPT !.seen[cellIdx] = raw,
                               !.delta[cellIdx] = Classify(v, acc.seen[cellIdx], raw)]
    IN  IF StoredDiffers(acc.lfd[cellIdx], g.hash)
        THEN [visited EXCEPT !.edits = Append(@, MkEdit(v, yChar, xChar, ts, g, acc.id)),
                             !.id = NextId(@),
                             !.lfd[cellIdx] = g.hash]
        ELSE visited

RECURSIVE RenderLoop(_, _, _, _, _, _)
RenderLoop(v, frame, field, ts, cellIdx, acc) ==
    IF cellIdx >= NumCells THEN acc
    ELSE IF VisitsRow(v, field, cellIdx \div CellCols)
         THEN RenderLoop(v, frame, field, ts, cellIdx + 1,
                         RenderCell(v, frame, ts, cellIdx, acc))
         ELSE RenderLoop(v, frame, field, ts, cellIdx + 1, acc)

\* the loop of one render tick over the whole grid
Render(v, frame, field, ts, lfd, id, sn) ==
    RenderLoop(v, frame, field, ts, 0,
               [edits |-> <<>>, lfd |-> lfd, id |-> id, seen |-> sn,
                delta |-> [c \in Cells |-> "skip"]])

(***************************************************************************)
(* State after construction: the module's top level has run and start()    *)
(* awaits the ROM.                                                         *)
(***************************************************************************)
Tokens == {"a", "right", "right+a", "jump", "quit", "constructor"}

\* process.env.ROM_URL, and the URLs a setrom command may name
EnvUrl == "env"
Urls == {"romA", "romB"}
Users == {"guest", "gimmickCellar"}

MaxTime == MaxClockSteps * (HOLD_MS \div 2)

inputVars == <<pressed, buttonTimers, timers, now, lastReceipt, lastToken, solo>>
tickVars == <<tickEdits, tickRows, prevRows, seen, tickDelta>>
cacheVars == <<lastFrameData, nextEditId, interlaceField>>
sessionVars == <<reloads, reported, orphans>>
slotVars == <<lastFrame, delivered, tickDelivered>>
taskVars == <<startPc, reconnects, logicInt, renderInt>>
romVars == <<ROM_URL, pendingRoms, loadedRom, newest>>

Init ==
    /\ variant \in Variants
    /\ proc = "running"
    /\ startPc = "fetching"
    /\ reloads = 0
    /\ reported = FALSE
    /\ orphans = 0
    /\ lastFrame = NoFrame
    /\ delivered = 0
    /\ tickDelivered = 0
    /\ socket = "none"
    /\ reconnects = 0
    /\ logicInt = 0
    /\ renderInt = 0
    /\ currentFrameBuffer = NoFrame
    /\ lastFrameData = [c \in Cells |-> ZeroWord]
    /\ nextEditId \in FirstIds(variant)
    /\ firstEditId = nextEditId
    /\ interlaceField = 0
    /\ pressed = {}
    /\ buttonTimers = [t \in Tokens |-> 0]
    /\ timers = <<>>
    /\ now = 0
    /\ sent = <<>>
    /\ lastOp = "init"
    /\ tickEdits = <<>>
    /\ tickRows = NoRows
    /\ prevRows = NoRows
    /\ seen = [c \in Cells |-> <<>>]
    /\ tickDelta = [c \in Cells |-> "skip"]
    /\ lastReceipt = [t \in Tokens |-> -1]
    /\ lastToken = "none"
    /\ solo = "none"
    /\ ROM_URL = EnvUrl
    /\ pendingRoms = <<>>
    /\ loadedRom = "none"
    /\ newest = "none"
    /\ dropped = FALSE
    /\ probe = <<>>

(***************************************************************************)
(* start(): the ROM has arrived; load it, connect, schedule the tasks.     *)
(***************************************************************************)
\* a start() that schedules its interval without clearing the one before
ScheduleStacked(v, n) == n + 1

\* the interval tasks of one kind after start() has scheduled its own: the
\* octant script clears the interval global.logicInt / global.renderInt holds
\* before it sets the new one, the others only set one
Schedule(v, n) == IF v = "octant" THEN 1 ELSE n + 1

Live(sock) == IF sock \in {"connecting", "open"} THEN 1 ELSE 0

\* a start() that connects whatever the socket variable holds
NeedsConnectAlways(v, sock) == TRUE

\* start(): connect(), or if (!socket) connect() in the octant script
NeedsConnect(v, sock) == v # "octant" \/ sock = "none"

\* the tail of start(), after the ROM has loaded
StartTail ==
    /\ IF NeedsConnect(variant, socket)
       THEN socket' = "connecting" /\ orphans' = orphans + Live(socket)
       ELSE UNCHANGED <<socket, orphans>>
    /\ logicInt' = Schedule(variant, logicInt)
    /\ renderInt' = IF RendersOnFrame(variant) THEN 0 ELSE Schedule(variant, renderInt)

StartLoaded ==
    /\ proc = "running"
    /\ startPc = "fetching"
    /\ startPc' = "done"
    /\ loadedRom' = ROM_URL
    /\ StartTail
    /\ sent' = <<>>
    /\ lastOp' = "start"
    /\ UNCHANGED <<probe, ROM_URL, pendingRoms, newest, dropped, reloads, reported, slotVars, variant, proc, reconnects,
                   currentFrameBuffer, firstEditId>>
    /\ UNCHANGED <<cacheVars, tickVars, inputVars>>

(***************************************************************************)
(* socket.on('open'): draw the instructions / pads / announcement.         *)
(***************************************************************************)
SocketOpen ==
    /\ proc = "running"
    /\ socket = "connecting"
    /\ socket' = "open"
    /\ sent' = OpenMessages(variant, nextEditId, now)
    /\ nextEditId' = IdAfter(nextEditId, Len(UIPlacements(variant)))
    /\ lastOp' = "open"
    /\ UNCHANGED <<probe, romVars, dropped, sessionVars, slotVars, variant, proc, currentFrameBuffer,
                   firstEditId, lastFrameData,
                   interlaceField>>
    /\ UNCHANGED <<taskVars, tickVars, inputVars>>

(***************************************************************************)
(* socket.on('close'): the octant script schedules a reconnect, the others *)
(* exit.                                                                   *)
(***************************************************************************)
SocketClose ==
    /\ proc = "running"
    /\ socket \in {"connecting", "open"}
    /\ socket' = "closed"
    /\ dropped' = TRUE
    /\ IF variant = "octant"
       THEN reconnects' = reconnects + 1 /\ proc' = proc
       ELSE reconnects' = reconnects /\ proc' = "exited"
    /\ sent' = <<>>
    /\ lastOp' = "close"
    /\ UNCHANGED <<probe, romVars, sessionVars, slotVars, variant, startPc, logicInt, renderInt,
                   currentFrameBuffer,
                   firstEditId>>
    /\ UNCHANGED <<cacheVars, tickVars, inputVars>>

\* setTimeout(connect, 2000) fires
Reconnect ==
    /\ proc = "running"
    /\ reconnects > 0
    /\ reconnects' = reconnects - 1
    /\ socket' = "connecting"
    /\ orphans' = orphans + Live(socket)
    /\ sent' = <<>>
    /\ lastOp' = "reconnect"
    /\ UNCHANGED <<probe, romVars, dropped, reloads, reported, slotVars, variant, proc, startPc, logicInt,
                   renderInt, currentFrameBuffer,
                   firstEditId>>
    /\ UNCHANGED <<cacheVars, tickVars, inputVars>>

(***************************************************************************)
(* One invocation of the render function on frame f.                       *)
(*   - it returns at once unless the socket is open (and, where the frame  *)
(*     comes from currentFrameBuffer, a frame has been delivered);         *)
(*   - renderInterlacedBatch reads currentFrameBuffer[idxB] in the first   *)
(*     cell it visits; no idxB is declared, so the read throws a           *)
(*     ReferenceError out of the timer callback and the process dies;      *)
(*   - otherwise the loop runs, the field flips, the batch goes out.       *)
(***************************************************************************)
UISpent(v) == Len(UIPlacements(v))

RunTick(f, n) ==
    LET res == Render(variant, f, interlaceField, now, lastFrameData, nextEditId, seen)
        rows == RowsOfTick(variant, interlaceField)
    IN  /\ tickDelivered' = n
        /\ delivered' = 0
        /\ IF socket # "open" \/ f = NoFrame
           THEN /\ lastOp' = "skip"
                /\ sent' = <<>>
                /\ tickEdits' = <<>>
                /\ UNCHANGED <<tickRows, prevRows>>
                /\ tickDelta' = [c \in Cells |-> "skip"]
                /\ UNCHANGED <<proc, seen, cacheVars, dropped>>
           ELSE IF variant = "interlaced"
           THEN /\ lastOp' = "throw"
                /\ proc' = "crashed"
                /\ sent' = <<>>
                /\ tickEdits' = <<>>
                /\ tickRows' = {CHOOSE y \in rows : \A z \in rows : y <= z}
                /\ prevRows' = tickRows
                /\ tickDelta' = [c \in Cells |-> "skip"]
                /\ UNCHANGED <<seen, cacheVars, dropped>>
           ELSE /\ res.id - firstEditId - UISpent(variant) <= MaxRenderEdits
                /\ lastOp' = "render"
                /\ lastFrameData' = res.lfd
                /\ nextEditId' = res.id
                /\ seen' = res.seen
                /\ tickDelta' = res.delta
                /\ tickEdits' = res.edits
                /\ tickRows' = rows
                /\ prevRows' = tickRows
                /\ interlaceField' = IF IsInterlaced(variant)
                                     THEN (IF interlaceField = 0 THEN 1 ELSE 0)
                                     ELSE interlaceField
                /\ sent' = SendChunks(res.edits, ChunkSize(variant))
                /\ dropped' = FALSE
                /\ proc' = proc

\* setInterval(() => render(), 500) fires
RenderTick ==
    /\ proc = "running"
    /\ renderInt > 0
    /\ RunTick(currentFrameBuffer, delivered)
    /\ UNCHANGED <<probe, romVars, sessionVars, lastFrame, variant, socket, currentFrameBuffer,
                   firstEditId>>
    /\ UNCHANGED <<taskVars, inputVars>>

(***************************************************************************)
(* setInterval(() => nes.frame()) fires: the emulator advances and calls   *)
(* onFrame with frame f, which stores a copy or renders it at once.        *)
(***************************************************************************)
\* an onFrame that keeps the frame it holds until one is taken from it
onFrameKeep(slot, f) == IF slot = NoFrame THEN f ELSE slot

\* onFrame of the scripts that render on a timer: the slot takes a copy of f
onFrame(slot, f) == f

Frame(f) ==
    /\ proc = "running"
    /\ logicInt > 0
    /\ lastFrame' = f
    /\ IF RendersOnFrame(variant)
       THEN /\ RunTick(f, 1)
            /\ UNCHANGED currentFrameBuffer
       ELSE /\ currentFrameBuffer' = onFrame(currentFrameBuffer, f)
            /\ delivered' = IF delivered < MaxDelivered THEN delivered + 1 ELSE delivered
            /\ tickDelivered' = 0
            /\ sent' = <<>>
            /\ lastOp' = "frame"
            /\ UNCHANGED <<proc, cacheVars, tickVars, dropped>>
    /\ UNCHANGED <<probe, romVars, sessionVars, variant, socket, firstEditId>>
    /\ UNCHANGED <<taskVars, inputVars>>

NextFrame == \E f \in Frames(variant) : Frame(f)

(***************************************************************************)
(* Command handling.  CONTROLLER_MAP maps a token to the buttons it holds. *)
(***************************************************************************)
SingleKeys == {"up", "down", "left", "right", "a", "b", "start", "select"}

CONTROLLER_MAP(v) ==
    LET single == [k \in SingleKeys |-> <<k>>]
    IN  IF v = "octant"
        THEN [k \in SingleKeys \cup {"right+a", "left+a"} |->
                CASE k = "right+a" -> <<"right", "a">>
                  [] k = "left+a" -> <<"left", "a">>
                  [] OTHER -> single[k]]
        ELSE single

\* the lower-case names every object literal inherits from Object.prototype
\* ("__proto__" is another)
Inherited == {"constructor"}

\* CONTROLLER_MAP[cmd]: an own key, or the inherited function Object
Lookup(v, cmd) ==
    IF cmd \in DOMAIN CONTROLLER_MAP(v) THEN CONTROLLER_MAP(v)[cmd] ELSE <<"Object">>

\* the test the handler puts before the press: CONTROLLER_MAP[cmd] !==
\* undefined.  The octant script tests for a truthy value and then calls
\* .forEach on it, which an inherited value does not have: the call throws
\* before any button is touched and the handler's catch takes it
Recognized(v, cmd) ==
    \/ cmd \in DOMAIN CONTROLLER_MAP(v)
    \/ v # "octant" /\ cmd \in Inherited

ButtonsOf(v, cmd) == {Lookup(v, cmd)[k] : k \in DOMAIN Lookup(v, cmd)}

\* a press of the token's first button only
ButtonsDownFirst(v, cmd, held) == held \cup {Lookup(v, cmd)[1]}

\* nes.buttonDown / nes.buttonUp for every button of the token
ButtonsDown(v, cmd, held) == held \cup ButtonsOf(v, cmd)
ButtonsUp(v, cmd, held) == held \ ButtonsOf(v, cmd)

FreeHandle(ts) ==
    CHOOSE h \in 1..(Len(ts) + 1) : \A i \in 1..Len(ts) : ts[i].handle # h

Remove(ts, i) == SubSeq(ts, 1, i - 1) \o SubSeq(ts, i + 1, Len(ts))

\* clearTimeout(handle): a handle that is not pending is ignored
ClearTimeout(ts, handle) ==
    IF \E i \in 1..Len(ts) : ts[i].handle = handle
    THEN Remove(ts, CHOOSE i \in 1..Len(ts) : ts[i].handle = handle)
    ELSE ts

\* setTimeout(release, 500) after the handler's clearTimeout, if it has one:
\* handleInput and the inline handlers replace the token's timer, the octant
\* script only adds one
ArmRelease(v, cmd, ts, bt, t) ==
    LET kept == IF v = "octant" \/ bt[cmd] = 0 THEN ts ELSE ClearTimeout(ts, bt[cmd])
        h == FreeHandle(kept)
    IN  [timers |-> Append(kept, [handle |-> h, token |-> cmd, due |-> t + HOLD_MS]),
         buttonTimers |-> IF v = "octant" THEN bt ELSE [bt EXCEPT ![cmd] = h]]

(***************************************************************************)
(* socket.on('message') with a well-formed message of the kind the script  *)
(* listens to, from user, whose text lower-cases and trims to cmd.         *)
(***************************************************************************)
Receive(user, cmd) ==
    /\ proc = "running"
    /\ socket = "open"
    /\ sent' = <<>>
    /\ lastOp' = "recv"
    /\ lastToken' = cmd
    /\ IF variant = "octant" /\ user = "gimmickCellar" /\ cmd = "quit"
       THEN /\ proc' = "quit"
            /\ UNCHANGED <<pressed, buttonTimers, timers, lastReceipt, solo>>
       ELSE IF Recognized(variant, cmd)
       THEN LET armed == ArmRelease(variant, cmd, timers, buttonTimers, now)
            IN  /\ now + HOLD_MS <= MaxTime
                /\ Len(armed.timers) <= MaxTimers
                /\ pressed' = ButtonsDown(variant, cmd, pressed)
                /\ timers' = armed.timers
                /\ buttonTimers' = armed.buttonTimers
                /\ lastReceipt' = [lastReceipt EXCEPT ![cmd] = now]
                /\ solo' = IF timers = <<>> /\ pressed = {} THEN cmd ELSE "none"
                /\ proc' = proc
       ELSE UNCHANGED <<proc, pressed, buttonTimers, timers, lastReceipt, solo>>
    /\ UNCHANGED <<probe, romVars, dropped, sessionVars, slotVars, variant, socket, currentFrameBuffer,
                   firstEditId, now>>
    /\ UNCHANGED <<taskVars, cacheVars, tickVars>>

NextReceive == \E user \in Users, cmd \in Tokens : Receive(user, cmd)

(***************************************************************************)
(* socket.on('message') with a message the handler cannot use:             *)
(*   "garbage"    not JSON: JSON.parse throws                              *)
(*   "null"       the JSON value null: msg.kind throws                     *)
(*   "notext"     the kind listened to, without the text field (message    *)
(*                or data): .toLowerCase() / .trim() of undefined throws   *)
(*   "otherkind"  an object of another kind: the if is skipped             *)
(* Whatever throws does so inside the try block.                           *)
(***************************************************************************)
RawMessages == {"garbage", "null", "notext", "otherkind"}

Throws(raw) == raw \in {"garbage", "null", "notext"}

\* a handler whose catch logs what it caught
CaughtLogged(r) == TRUE

\* catch (e) {} of the message handler: what it catches goes nowhere
Caught(r) == r

ReceiveBad(raw) ==
    /\ proc = "running"
    /\ socket = "open"
    /\ reported' = IF Throws(raw) THEN Caught(reported) ELSE reported
    /\ sent' = <<>>
    /\ lastOp' = "drop"
    /\ UNCHANGED <<probe, romVars, dropped, reloads, orphans, slotVars, variant, proc, socket,
                   currentFrameBuffer, firstEditId>>
    /\ UNCHANGED <<taskVars, cacheVars, tickVars, inputVars>>

NextReceiveBad == \E raw \in RawMessages : ReceiveBad(raw)

\* the pending timer that fires next: the earliest due, the oldest among equals
NextTimer(ts) ==
    CHOOSE i \in 1..Len(ts) :
        \A j \in 1..Len(ts) : ts[i].due < ts[j].due \/ (ts[i].due = ts[j].due /\ i <= j)

\* a release timer fires: buttonUp for the token's buttons
TimerFire ==
    /\ proc = "running"
    /\ timers # <<>>
    /\ LET i == NextTimer(timers)
           tm == timers[i]
       IN  /\ tm.due <= now
           /\ pressed' = ButtonsUp(variant, tm.token, pressed)
           /\ timers' = Remove(timers, i)
           /\ buttonTimers' = IF variant = "octant" THEN buttonTimers
                              ELSE [buttonTimers EXCEPT ![tm.token] = 0]
           /\ lastToken' = tm.token
    /\ sent' = <<>>
    /\ lastOp' = "timer"
    /\ UNCHANGED <<probe, romVars, dropped, sessionVars, slotVars, variant, proc, socket, currentFrameBuffer,
                   firstEditId, now,
                   lastReceipt, solo>>
    /\ UNCHANGED <<taskVars, cacheVars, tickVars>>

\* time passes while no timer is due
ClockTick ==
    /\ proc = "running"
    /\ now < MaxTime
    /\ \A i \in 1..Len(timers) : timers[i].due > now
    /\ now' = now + (HOLD_MS \div 2)
    /\ sent' = <<>>
    /\ lastOp' = "clock"
    /\ UNCHANGED <<probe, romVars, dropped, sessionVars, slotVars, variant, proc, socket, currentFrameBuffer,
                   firstEditId, pressed,
                   buttonTimers, timers, lastReceipt, lastToken, solo>>
    /\ UNCHANGED <<taskVars, cacheVars, tickVars>>

Next ==
    \/ StartLoaded
    \/ SocketOpen
    \/ SocketClose
    \/ Reconnect
    \/ NextFrame
    \/ RenderTick

Spec == Init /\ [][Next]_vars

(***************************************************************************)
(* The tile coordinate mapper on the program's own grid: 120 x 256 cells   *)
(* in the half-block scripts, 60 x 128 in the octant script.  The probe is *)
(* the cell <<yChar, xChar>> a render loop has reached with a changed      *)
(* hash; MapCell builds its edit record.                                   *)
(***************************************************************************)
GridRows(v) == IF IsOctant(v) THEN 60 ELSE 120
GridCols(v) == IF IsOctant(v) THEN 128 ELSE 256

Quiet ==
    /\ proc = "running"
    /\ startPc = "done"
    /\ reloads = 0
    /\ reported = FALSE
    /\ orphans = 0
    /\ lastFrame = NoFrame
    /\ delivered = 0
    /\ tickDelivered = 0
    /\ socket = "open"
    /\ reconnects = 0
    /\ logicInt = 1
    /\ renderInt = IF RendersOnFrame(variant) THEN 0 ELSE 1
    /\ currentFrameBuffer = NoFrame
    /\ lastFrameData = [c \in Cells |-> ZeroWord]
    /\ nextEditId = 1
    /\ firstEditId = 1
    /\ interlaceField = 0
    /\ pressed = {}
    /\ buttonTimers = [t \in Tokens |-> 0]
    /\ timers = <<>>
    /\ now = 0
    /\ sent = <<>>
    /\ lastOp = "init"
    /\ tickEdits = <<>>
    /\ tickRows = NoRows
    /\ prevRows = NoRows
    /\ seen = [c \in Cells |-> <<>>]
    /\ tickDelta = [c \in Cells |-> "skip"]
    /\ lastReceipt = [t \in Tokens |-> -1]
    /\ lastToken = "none"
    /\ solo = "none"
    /\ ROM_URL = EnvUrl
    /\ pendingRoms = <<>>
    /\ loadedRom = EnvUrl
    /\ newest = "none"
    /\ dropped = FALSE

InitMap ==
    /\ variant \in Variants
    /\ probe \in (0..(GridRows(variant) - 1)) \X (0..(GridCols(variant) - 1))
    /\ Quiet

MapCell ==
    /\ lastOp = "init"
    /\ Len(probe) = 2
    /\ LET g == Glyph(variant, Samples(variant, Blocks(variant)[2]))
       IN  tickEdits' = <<MkEdit(variant, probe[1], probe[2], now, g, nextEditId)>>
    /\ nextEditId' = NextId(nextEditId)
    /\ lastOp' = "map"
    /\ UNCHANGED <<probe, romVars, dropped, sessionVars, slotVars, variant, proc, socket, currentFrameBuffer,
                   firstEditId,
                   lastFrameData, interlaceField, sent, tickRows, prevRows, seen,
                   tickDelta>>
    /\ UNCHANGED <<taskVars, inputVars>>

SpecMap == InitMap /\ [][MapCell]_vars

(***************************************************************************)
(* The batch emitter on edit lists of every length up to MaxEdits.  The    *)
(* probe is <<n>>: a render tick has built n edit records; EmitBatch is    *)
(* the tail of the render function.                                        *)
(***************************************************************************)
InitChunk ==
    /\ variant \in Variants
    /\ probe \in {<<n>> : n \in 0..MaxEdits}
    /\ Quiet

\* n edit records, for the first n cells of the grid in loop order, with the
\* ids a counter at 1 hands out
EditList(v, n, ts) ==
    [k \in 1..n |->
        MkEdit(v, (k - 1) \div GridCols(v), (k - 1) % GridCols(v), ts,
               [char |-> <<BLANK>>, fg |-> 0, bg |-> 0], k)]

EmitBatch ==
    /\ lastOp = "init"
    /\ Len(probe) = 1
    /\ tickEdits' = EditList(variant, probe[1], now)
    /\ nextEditId' = probe[1] + 1
    /\ sent' = SendChunks(tickEdits', ChunkSize(variant))
    /\ lastOp' = "emit"
    /\ UNCHANGED <<probe, romVars, dropped, sessionVars, slotVars, variant, proc, socket, currentFrameBuffer,
                   firstEditId,
                   lastFrameData, interlaceField, tickRows, prevRows, seen, tickDelta>>
    /\ UNCHANGED <<taskVars, inputVars>>

SpecChunk == InitChunk /\ [][EmitBatch]_vars

(***************************************************************************)
(* The command handler on its own, with the clock.  Node runs a due timer  *)
(* and the clock does not stop, hence the fairness.                        *)
(***************************************************************************)
NextInput ==
    \/ StartLoaded
    \/ SocketOpen
    \/ NextReceive
    \/ NextReceiveBad
    \/ TimerFire
    \/ ClockTick

SpecInput ==
    Init /\ [][NextInput]_vars /\ WF_vars(TimerFire) /\ WF_vars(ClockTick)

(***************************************************************************)
(* The session: start(), the admin command setrom of the octant script,    *)
(* close and reconnect.  A start() is one await of the ROM and then a      *)
(* synchronous tail, so starts that overlap finish one at a time.          *)
(***************************************************************************)
\* a rejected first start() that leaves the process waiting
StartRejectedIdle(v) == {"running"}

\* what becomes of the process when the first start() rejects: start().catch(
\* console.error) prints and nothing is left to run; a bare start() is an
\* unhandled rejection, which ends the process at once or when idle
StartRejected(v) == IF v \in {"bigpad", "webui"} THEN {"crashed", "ended"} ELSE {"ended"}

\* the fetch or loadROM of the first start() fails
StartFailed ==
    /\ proc = "running"
    /\ startPc = "fetching"
    /\ startPc' = "failed"
    /\ proc' \in StartRejected(variant)
    /\ reported' = TRUE
    /\ sent' = <<>>
    /\ lastOp' = "startfail"
    /\ UNCHANGED <<probe, romVars, dropped, reloads, orphans, slotVars, variant, socket, reconnects, logicInt,
                   renderInt, currentFrameBuffer, firstEditId>>
    /\ UNCHANGED <<cacheVars, tickVars, inputVars>>

\* chat message "setrom <url>" from the admin: ROM_URL = url, then
\* return await start(), whose first act is fetch(ROM_URL)
ReceiveSetrom ==
    /\ proc = "running"
    /\ variant = "octant"
    /\ socket = "open"
    /\ reloads < MaxReloads
    /\ reloads' = reloads + 1
    /\ \E url \in Urls :
          /\ ROM_URL' = url
          /\ pendingRoms' = Append(pendingRoms, url)
    /\ newest' = "pending"
    /\ sent' = <<>>
    /\ lastOp' = "setrom"
    /\ UNCHANGED <<probe, loadedRom, dropped, reported, orphans, slotVars, variant, proc,
                   socket, currentFrameBuffer, firstEditId>>
    /\ UNCHANGED <<taskVars, cacheVars, tickVars, inputVars>>

\* the fate of the latest setrom command once fetch i of n has settled
Settle(state, i, n, outcome) ==
    IF i = n /\ state = "pending" THEN outcome ELSE state

\* the ROM of a setrom command has arrived and loaded: the tail of start().
\* Fetches in flight settle in any order
ReloadLoaded ==
    /\ proc = "running"
    /\ reloads > 0
    /\ reloads' = reloads - 1
    /\ \E i \in 1..Len(pendingRoms) :
          /\ loadedRom' = pendingRoms[i]
          /\ pendingRoms' = Remove(pendingRoms, i)
          /\ newest' = Settle(newest, i, Len(pendingRoms), "loaded")
    /\ StartTail
    /\ sent' = <<>>
    /\ lastOp' = "reloaded"
    /\ UNCHANGED <<probe, ROM_URL, dropped, reported, slotVars, variant, proc, startPc,
                   reconnects, currentFrameBuffer, firstEditId>>
    /\ UNCHANGED <<cacheVars, tickVars, inputVars>>

\* the fetch or loadROM of a setrom command fails: await start() throws inside
\* the handler's try block
ReloadFailed ==
    /\ proc = "running"
    /\ reloads > 0
    /\ reloads' = reloads - 1
    /\ \E i \in 1..Len(pendingRoms) :
          /\ pendingRoms' = Remove(pendingRoms, i)
          /\ newest' = Settle(newest, i, Len(pendingRoms), "failed")
    /\ reported' = Caught(reported)
    /\ sent' = <<>>
    /\ lastOp' = "reloadfail"
    /\ UNCHANGED <<probe, ROM_URL, loadedRom, dropped, orphans, slotVars, variant, proc,
                   socket, currentFrameBuffer, firstEditId>>
    /\ UNCHANGED <<taskVars, cacheVars, tickVars, inputVars>>

\* the frame of a blank screen
FirstFrame(v) == MkFrame(v, Blocks(v)[1], Blocks(v)[1])

NextSession ==
    \/ StartLoaded
    \/ StartFailed
    \/ SocketOpen
    \/ SocketClose
    \/ Reconnect
    \/ ReceiveSetrom
    \/ ReloadLoaded
    \/ ReloadFailed
    \/ Frame(FirstFrame(variant))
    \/ RenderTick

\* Node runs a due timer: the reconnect timer fires
SpecSession == Init /\ [][NextSession]_vars /\ WF_vars(Reconnect)

(***************************************************************************)
(* Properties.                                                             *)
(***************************************************************************)
\* the cell an edit record addresses, on the model's grid
EditCellIdx(e) ==
    (e.tileY * TILE_R + e.charY) * CellCols + (e.tileX * TILE_C + e.charX)

EditsFor(c) == {k \in 1..Len(tickEdits) : EditCellIdx(tickEdits[k]) = c}

Visited == {c \in Cells : tickDelta[c] # "skip"}

\* the edit records of the write messages of a send list, in send order
EditsIn(msgs) ==
    LET IsWrite(m) == m.kind = "write"
        writes == SelectSeq(msgs, IsWrite)
    IN  Flatten([k \in 1..Len(writes) |-> writes[k].edits])

(* C1: in every render variant and for every pixel colour, a render tick   *)
(* that visits a cell whose block is pixel-identical to the block of the   *)
(* cell's previous visit emits no edit record for it; when that is so for  *)
(* every cell it visits, its batch is empty and nothing is sent.           *)
C1_IdenticalBlockNoEdit ==
    lastOp = "render" =>
        /\ \A c \in Cells : tickDelta[c] = "same" => EditsFor(c) = {}
        /\ (\A c \in Visited : tickDelta[c] = "same") => tickEdits = <<>> /\ sent = <<>>

(* C2: when exactly one pixel of a cell changed between two visits and the *)
(* selected colours changed with it, the tick of the second visit emits    *)
(* exactly one edit record for the cell, with the fg and bg the policy     *)
(* selects for the new block, and none for a cell whose pixels did not     *)
(* change.                                                                 *)
C2_OnePixelOneEdit ==
    lastOp = "render" =>
        /\ \A c \in Cells : tickDelta[c] = "one" =>
              /\ Cardinality(EditsFor(c)) = 1
              /\ \A k \in EditsFor(c) :
                    <<tickEdits[k].fg, tickEdits[k].bg>> = Selected(variant, seen[c])
        /\ \A c \in Cells : tickDelta[c] = "same" => EditsFor(c) = {}

(* C3: in the interlaced variants a render tick visits every row of its    *)
(* field, and the rows of two consecutive render ticks are disjoint and    *)
(* together are the full row range.                                        *)
C3_RowsPartition ==
    (IsInterlaced(variant) /\ tickRows # NoRows) =>
        /\ \/ tickRows = {y \in 0..(CellRows - 1) : (y % 2) = 0}
           \/ tickRows = {y \in 0..(CellRows - 1) : (y % 2) = 1}
        /\ prevRows # NoRows =>
              /\ tickRows \cap prevRows = {}
              /\ tickRows \cup prevRows = 0..(CellRows - 1)

(* C4: the write messages of a tick that built the edit list E are         *)
(* ceil(|E| / K) messages for the variant's chunk size K (500, 450 or      *)
(* 400), each of at most K edits, all but the last of exactly K, and their *)
(* concatenation in send order is E: all of E goes out in that tick.  1203 *)
(* edits with K = 500 go out as 500, 500, 203.                             *)
C4_Chunks ==
    lastOp = "emit" =>
        LET K == ChunkSize(variant)
            n == Len(tickEdits)
        IN  /\ K \in {500, 450, 400}
            /\ Len(sent) = (n + K - 1) \div K
            /\ \A i \in 1..Len(sent) :
                  /\ sent[i].kind = "write"
                  /\ Len(sent[i].edits) <= K
                  /\ i < Len(sent) => Len(sent[i].edits) = K
            /\ EditsIn(sent) = tickEdits
            /\ (n = 1203 /\ K = 500) =>
                  [i \in 1..Len(sent) |-> Len(sent[i].edits)] = <<500, 500, 203>>

C4_Witness ==
    /\ lastOp = "emit"
    /\ Len(tickEdits) = 1203
    /\ ChunkSize(variant) = 500
    /\ Len(sent) = 3
    /\ Len(sent[3].edits) = 203

(* C5: a render tick that builds no edit record sends nothing, and no      *)
(* render tick sends a write message with an empty edit list.              *)
C5_NoEmptyWrite ==
    lastOp \in {"render", "skip", "throw"} =>
        /\ tickEdits = <<>> => sent = <<>>
        /\ \A i \in 1..Len(sent) : sent[i].edits # <<>>

C5_Witness ==
    /\ lastOp = "render"
    /\ \E c \in Cells : tickDelta[c] = "same"
    /\ tickEdits = <<>>
    /\ sent = <<>>

(* C6: every step hands out edit ids from the counter upwards, in          *)
(* increasing order, and leaves the counter above them; the counter never  *)
(* goes back.  So an edit record's id is above every id emitted before it, *)
(* across UI draws, render ticks and reconnects.                           *)
C6_IdsIncrease ==
    [][/\ nextEditId' >= nextEditId
       /\ LET es == EditsIn(sent')
          IN  \A k \in 1..Len(es) :
                /\ es[k].id >= nextEditId
                /\ es[k].id < nextEditId'
                /\ k > 1 => es[k - 1].id < es[k].id]_vars

C6_Witness ==
    /\ lastOp = "render"
    /\ UISpent(variant) > 0
    /\ Len(tickEdits) > 1
    /\ tickEdits[1].id >= firstEditId + UISpent(variant)

(* C7: the edit record of the cell at (cellRow, cellCol) carries           *)
(* tileRow = cellRow div 8, tileCol = cellCol div 16, localRow = cellRow   *)
(* mod 8, localCol = cellCol mod 16: the local coordinates are in range    *)
(* and the four give the cell back, so no two cells share them.  Cell      *)
(* (23, 130) maps to (2, 8, 7, 2).                                         *)
C7_TileCoords ==
    lastOp = "map" =>
        LET e == tickEdits[1]
        IN  /\ e.charY \in 0..7
            /\ e.charX \in 0..15
            /\ e.tileY * 8 + e.charY = probe[1]
            /\ e.tileX * 16 + e.charX = probe[2]
            /\ probe = <<23, 130>> =>
                  <<e.tileY, e.tileX, e.charY, e.charX>> = <<2, 8, 7, 2>>

C7_Witness ==
    /\ lastOp = "map"
    /\ probe = <<23, 130>>
    /\ tickEdits[1].tileY = 2
    /\ tickEdits[1].tileX = 8
    /\ tickEdits[1].charY = 7
    /\ tickEdits[1].charX = 2

(* C8: a recognized token received again before its hold expired replaces  *)
(* its release timer: there is at most one pending release timer per       *)
(* token, and a release happens no sooner than 500 ms after the latest     *)
(* receipt of its token.                                                   *)
C8_OneTimerPerToken ==
    /\ \A t \in Tokens :
          Cardinality({i \in 1..Len(timers) : timers[i].token = t}) <= 1
    /\ lastOp = "timer" => now >= lastReceipt[lastToken] + 500

(* C9: a compound token presses both its buttons in the step that receives *)
(* it and its release timer releases both in one step, 500 ms after the    *)
(* receipt when no other command came in between; and while the process    *)
(* runs, a held button is eventually released.                             *)
Compound == {"right+a", "left+a"}

C9_CompoundHold ==
    /\ [](lastOp = "recv" /\ lastToken \in Compound /\ Recognized(variant, lastToken)
             => {"a", IF lastToken = "right+a" THEN "right" ELSE "left"} \subseteq pressed)
    /\ [](lastOp = "timer" /\ lastToken \in Compound
             => /\ pressed \cap {"a", IF lastToken = "right+a" THEN "right" ELSE "left"} = {}
                /\ solo = lastToken => now = lastReceipt[lastToken] + 500)
    /\ (pressed # {} ~> (pressed = {} \/ proc # "running"))

C9_Witness ==
    /\ lastOp = "timer"
    /\ lastToken = "right+a"
    /\ solo = "right+a"
    /\ pressed = {}
    /\ now = lastReceipt["right+a"] + 500

(* C10: in the octant policy an edit record whose mask is not in the glyph *)
(* table carries the blank glyph and fg = bg; one whose mask is in the     *)
(* table carries the code point 0x1CD00 + the mask's index in the table.   *)
C10_OctantGlyph ==
    (lastOp = "render" /\ variant = "octant") =>
        \A k \in 1..Len(tickEdits) :
            LET e == tickEdits[k]
                mask == Bitmask(Samples(variant, seen[EditCellIdx(e)]), e.fg)
            IN  /\ mask \notin ValidMasks => e.char = <<32>> /\ e.fg = e.bg
                /\ mask \in ValidMasks =>
                      \E i \in 1..Len(lcsOctantCharPoints) :
                          /\ lcsOctantCharPoints[i] = mask
                          /\ e.char = <<118016 + (i - 1)>>

(* C11: a render tick that renders reads the frame the most recent onFrame *)
(* callback delivered: every cell it visits is sampled from that frame and *)
(* every edit it emits carries the colours selected from that frame, so a  *)
(* frame replaced in the slot before the tick is never rendered.           *)
BlockOfLast(c) == RawBlock(variant, lastFrame, c \div CellCols, c % CellCols)

C11_LatestFrameWins ==
    lastOp = "render" =>
        /\ lastFrame # NoFrame
        /\ \A c \in Visited : seen[c] = BlockOfLast(c)
        /\ \A k \in 1..Len(tickEdits) :
              <<tickEdits[k].fg, tickEdits[k].bg>> =
                  Selected(variant, BlockOfLast(EditCellIdx(tickEdits[k])))

C11_Witness ==
    /\ lastOp = "render"
    /\ ~RendersOnFrame(variant)
    /\ tickDelivered >= 2
    /\ tickEdits # <<>>
    /\ \A c \in Visited : seen[c] = BlockOfLast(c)

(* C12: across startup and setrom reloads, overlapping ones included, at   *)
(* most one frame-advance task and at most one render task are scheduled   *)
(* at any moment, so a render tick runs once per period.                   *)
C12_OneProducerOneConsumer ==
    /\ logicInt <= 1
    /\ renderInt <= 1
    /\ lastOp \in {"start", "reloaded"} =>
          logicInt = 1 /\ renderInt = (IF RendersOnFrame(variant) THEN 0 ELSE 1)

C12_Witness ==
    /\ lastOp = "reloaded"
    /\ reloads >= 1
    /\ logicInt = 1
    /\ renderInt = 1

(* C13: an inbound message that does not parse or lacks the expected       *)
(* fields changes no state: no button, no timer, nothing sent, nothing     *)
(* reported; the process runs on with its handler attached, so the next    *)
(* message is handled as usual.                                            *)
C13_MalformedDropped ==
    /\ [][lastOp' = "drop" =>
            /\ UNCHANGED <<pressed, timers, buttonTimers, reported, proc, socket,
                           lastFrameData, nextEditId, interlaceField, reloads>>
            /\ sent' = <<>>]_vars
    /\ [](lastOp = "drop" => proc = "running" /\ socket = "open" /\ ~reported)

C13_Witness ==
    /\ lastOp = "drop"
    /\ pressed # {}
    /\ timers # <<>>
    /\ proc = "running"
    /\ ~reported

(* C14: a chat / cmd token that is not a key of the controller map is a    *)
(* no-op: the handler presses and releases nothing, creates and clears no  *)
(* timer and sends nothing.                                                *)
C14_UnknownTokenNoOp ==
    [][(lastOp' = "recv" /\ lastToken' \notin DOMAIN CONTROLLER_MAP(variant)) =>
          /\ UNCHANGED <<pressed, timers, buttonTimers>>
          /\ sent' = <<>>]_vars

(* C15: when the socket closes, the octant script schedules exactly one    *)
(* reconnect and a new socket takes the old one's place: never two         *)
(* reconnects pending, never a second live socket; the other scripts exit  *)
(* with status 1.  Nothing else schedules a reconnect, and connect() runs  *)
(* only from start() and from the reconnect timer.                         *)
C15_CloseReconnectsOrExits ==
    /\ [][lastOp' = "close" =>
            IF variant = "octant"
            THEN reconnects' = reconnects + 1 /\ proc' = "running"
            ELSE reconnects' = reconnects /\ proc' = "exited"]_vars
    /\ [][reconnects' > reconnects => lastOp' = "close"]_vars
    /\ [][(socket' = "connecting" /\ socket # "connecting") =>
            lastOp' \in {"start", "reconnect"}]_vars
    /\ [](reconnects <= 1 /\ orphans = 0)
    /\ ((variant = "octant" /\ socket = "closed") ~>
            (socket = "connecting" \/ proc # "running"))

C15_Witness ==
    /\ lastOp = "reconnect"
    /\ variant = "octant"
    /\ socket = "connecting"
    /\ reconnects = 0
    /\ orphans = 0

(* C16: when the fetch or load of a setrom command fails, the failure is   *)
(* reported and the running session stays as it was: same socket, same     *)
(* frame-advance and render tasks, process running.                        *)
C16_ReloadFailureReported ==
    [][lastOp' = "reloadfail" =>
          /\ reported'
          /\ UNCHANGED <<socket, reconnects, logicInt, renderInt, proc>>]_vars

(* C17: when the ROM fetch or load of the first start() fails, the process *)
(* reports it and ends: no socket is ever opened and no frame-advance or   *)
(* render task is ever scheduled.                                          *)
C17_StartupFailureFatal ==
    startPc = "failed" =>
        /\ proc \in {"crashed", "ended"}
        /\ reported
        /\ socket = "none"
        /\ logicInt = 0
        /\ renderInt = 0
        /\ sent = <<>>

C17_Witness ==
    /\ lastOp = "startfail"
    /\ startPc = "failed"
    /\ proc # "running"
    /\ socket = "none"
    /\ logicInt = 0

(* C18: every message handed to the socket has kind write, link or chat,   *)
(* and the announcement sent when the connection opens has kind chat.      *)
C18_OutboundKinds ==
    /\ \A i \in 1..Len(sent) : sent[i].kind \in {"write", "link", "chat"}
    /\ (lastOp = "open" /\ variant = "octant") =>
          Len(sent) = 1 /\ sent[1].kind = "chat"

(* C19: every invocation of the render tick of an interlaced script flips  *)
(* the field, whether it built edits, returned early or not.               *)
TickOps == {"render", "skip", "throw"}

C19_FieldFlipsEveryTick ==
    [][(IsInterlaced(variant) /\ lastOp' \in TickOps) =>
          interlaceField' = 1 - interlaceField]_vars

(* C20: in a render tick a cell's stored hash changes if and only if an    *)
(* edit record for the cell goes out in that tick's write messages, the    *)
(* stored hash is then the hash of that edit's glyph, and a tick that      *)
(* returns early changes no stored hash.                                   *)
SentFor(msgs, c) ==
    LET es == EditsIn(msgs) IN {k \in 1..Len(es) : EditCellIdx(es[k]) = c}

C20_CacheInStepWithOutput ==
    [][lastOp' \in TickOps =>
          /\ \A c \in Cells :
                /\ (lastFrameData'[c] # lastFrameData[c]) <=> (SentFor(sent', c) # {})
                /\ SentFor(sent', c) # {} =>
                      lastFrameData'[c] = Glyph(variant, Samples(variant, seen'[c])).hash
          /\ lastOp' = "skip" => lastFrameData' = lastFrameData]_vars


(* C21: in the octant policy, fg has the greatest sample count of its      *)
(* block and, among the colours with that count, is the one met first in   *)
(* raster order of the 8 samples; bg is the next colour by the same        *)
(* ranking, or fg when the block has one colour; bit i of the mask is 1    *)
(* exactly when sample i is fg.  The mask is the low byte of the hash.     *)
C21_OctantSelection ==
    (lastOp = "render" /\ variant = "octant") =>
        \A k \in 1..Len(tickEdits) :
            LET e == tickEdits[k]
                c == EditCellIdx(e)
                colors == Samples(variant, seen[c])
                S == {colors[i] : i \in 1..8}
                FirstAt(x) == CHOOSE i \in 1..8 :
                                 colors[i] = x /\ \A j \in 1..(i - 1) : colors[j] # x
                Best(T) == CHOOSE x \in T : \A d \in T \ {x} :
                              \/ Count(colors, x) > Count(colors, d)
                              \/ /\ Count(colors, x) = Count(colors, d)
                                 /\ FirstAt(x) < FirstAt(d)
                mask == lastFrameData[c][4]
            IN  /\ \A d \in S : Count(colors, e.fg) >= Count(colors, d)
                /\ e.fg = Best(S)
                /\ e.bg = IF S = {e.fg} THEN e.fg ELSE Best(S \ {e.fg})
                /\ \A i \in 1..8 :
                      ((mask \div (2 ^ (i - 1))) % 2 = 1) <=> (colors[i] = e.fg)


(* C22: in the half-block scripts a render tick that passes its guard runs *)
(* to its end, and every edit record it emits for the cell at row r,       *)
(* column x carries the half-block character U+2580, fg = the              *)
(* channel-swapped colour of source pixel (2r, x) and bg = that of source  *)
(* pixel (2r + 1, x).                                                      *)
C22_HalfBlockEdit ==
    (~IsOctant(variant) /\ lastOp \in TickOps) =>
        /\ lastOp # "throw"
        /\ \A k \in 1..Len(tickEdits) :
              LET e == tickEdits[k]
                  r == e.tileY * 8 + e.charY
                  x == e.tileX * 16 + e.charX
                  top == lastFrame[(2 * r) * WIDTH(variant) + x + 1]
                  bot == lastFrame[(2 * r + 1) * WIDTH(variant) + x + 1]
              IN  /\ e.char = <<9600>>
                  /\ e.fg = fixColor(top)
                  /\ e.bg = fixColor(bot)


(* C23: a render tick of an interlaced script that passes its guard with   *)
(* the field at f visits every cell of every row r with r mod 2 = f, and   *)
(* for every cell of the other rows it samples nothing, emits no edit      *)
(* record and leaves the stored hash as it was.                            *)
C23_FieldRowsOnly ==
    [][(IsInterlaced(variant) /\ lastOp' \in {"render", "throw"}) =>
          /\ tickRows' = {r \in 0..(CellRows - 1) : (r % 2) = interlaceField}
          /\ \A c \in Cells :
                IF ((c \div CellCols) % 2) = interlaceField
                THEN tickDelta'[c] # "skip"
                ELSE /\ tickDelta'[c] = "skip"
                     /\ seen'[c] = seen[c]
                     /\ lastFrameData'[c] = lastFrameData[c]
                     /\ SentFor(sent', c) = {}]_vars


(* C24: nothing but a render tick writes the cell cache: close, reconnect, *)
(* open, start, reload and command handling leave every stored hash as it  *)
(* was; and the first tick that renders after a socket closed and a new    *)
(* one opened emits no edit for a cell whose block is what it was at the   *)
(* cell's visit before.                                                    *)
C24_CacheSurvivesDrop ==
    /\ [][lastOp' \notin TickOps => lastFrameData' = lastFrameData]_vars
    /\ [][(dropped /\ lastOp' = "render") =>
            \A c \in Cells : tickDelta'[c] = "same" => SentFor(sent', c) = {}]_vars


(* C25: when the fetches of several setrom commands overlap, then once all *)
(* of them have settled and the one of the latest command has loaded its   *)
(* ROM, the ROM in the emulator is the one the latest command named, in    *)
(* whatever order the fetches finished.                                    *)
C25_LatestRomWins ==
    (pendingRoms = <<>> /\ newest = "loaded") => loadedRom = ROM_URL

====
